---- MODULE Spec2Model ----
(***************************************************************************)
(* A model of app.py of the AI Resume Analyzer: the two-stage text         *)
(* extractor (extract_text_from_pdf), the model selector                   *)
(* (select_supported_model), the analyzer (analyze_resume) and the         *)
(* analysis section of the Streamlit script that chains them.              *)
(*                                                                         *)
(* Python strings are sequences of one-character strings, so that strip,   *)
(* lower, concatenation and the substring test `in` are computed and not   *)
(* assumed.  A string whose characters the code never inspects (a model    *)
(* name, a fixed block of prose) is written as a sequence of one symbol.   *)
(* Python's None is the value None below.                                  *)
(***************************************************************************)
EXTENDS Integers, Sequences, FiniteSets, TLC

VARIABLES
    pc,             \* position of the running code
    stack,          \* call stack, outermost first
    \* ---- the file system and the external libraries' call logs
    disk,           \* content of the PDF file at pdf_path: its sequence of pages
    writes,         \* number of writes of uploaded_resume.pdf in this run
    openCalls,      \* calls of pdfplumber.open
    renderCalls,    \* calls of pdf2image.convert_from_path
    ocrLog,         \* page numbers handed to pytesseract.image_to_string, in order
    \* ---- extract_text_from_pdf
    text,           \* local `text`
    idx,            \* number of pages the running loop has completed
    directRaised,   \* the direct-extraction try block ended in its except clause
    directRead,     \* pages whose extract_text() returned
    ocrRaised,      \* the OCR try block ended in its except clause
    ocrRead,        \* pages whose image_to_string() returned
    exResult,       \* value returned by extract_text_from_pdf (Running before)
    \* ---- the remote generative-language service
    catalog,        \* the entries its model listing yields
    listCalls,      \* calls of genai.list_models
    \* ---- select_supported_model
    preferred_list, \* the argument
    pref,           \* local `pref`
    models,         \* local `models`: the listing being iterated
    scan,           \* entries of `models` the loop has examined and skipped
    selRaised,      \* the listing try block ended in its except clause
    selResult,      \* value returned by select_supported_model (Running before)
    \* ---- analyze_resume
    resume_text,    \* the argument (in the script: the extractor's result)
    job_description,\* the argument (in the script: the text area's content)
    selected_model_name,
    constructCalls, \* calls of genai.GenerativeModel
    model,          \* local `model`: None, or the name the object was built for
    prompts,        \* the prompts handed to model.generate_content, in order
    response,       \* local `response`: what generate_content returned
    upstream,       \* str(e) of the exception generate_content raised, or None
    anResult,       \* how analyze_resume ended: what it returned or raised
    \* ---- the Streamlit script (one run per user interaction)
    uploaded_file,  \* st.file_uploader's value: no file, or a PDF
    analyze_button, \* st.button's value: TRUE in the run the click starts
    shown           \* what the analysis section has put on the page, in order

exVars == <<disk, writes, openCalls, renderCalls, ocrLog, text, idx,
            directRaised, directRead, ocrRaised, ocrRead, exResult>>
selVars == <<catalog, listCalls, preferred_list, pref, models, scan, selRaised,
             selResult>>
anVars == <<resume_text, job_description, selected_model_name, constructCalls,
            model, prompts, response, upstream, anResult>>
uiVars == <<uploaded_file, analyze_button, shown>>
vars == <<pc, stack, exVars, selVars, anVars, uiVars>>

----------------------------------------------------------------------------
(* Bounds of the model *)

\* pages of a PDF handed to the extractor
MaxPages == 2

\* entries of the remote model listing
MaxModels == 2

\* fragments an upstream error message is made of
MaxFrags == 2

----------------------------------------------------------------------------
(* Python values and string operations *)

None == <<"None">>

\* bool(x) of a value that is None or a string
Truthy(x) == x # None /\ x # <<>>

\* the characters str.strip() removes
Whitespace == {" ", "\n", "\t", "\r"}

RECURSIVE LStrip(_)
LStrip(s) == IF s # <<>> /\ Head(s) \in Whitespace THEN LStrip(Tail(s)) ELSE s

RECURSIVE RStrip(_)
RStrip(s) ==
    IF s # <<>> /\ s[Len(s)] \in Whitespace
    THEN RStrip(SubSeq(s, 1, Len(s) - 1))
    ELSE s

\* str.strip()
Strip(s) == RStrip(LStrip(s))

\* sub in s
Contains(s, sub) ==
    \E k \in 0..(Len(s) - Len(sub)) : SubSeq(s, k + 1, k + Len(sub)) = sub

\* the flattening of a sequence of strings: "".join(ss)
RECURSIVE Concat(_)
Concat(ss) == IF ss = <<>> THEN <<>> ELSE Head(ss) \o Concat(Tail(ss))

\* sep.join(ss)
RECURSIVE Join(_, _)
Join(sep, ss) ==
    IF ss = <<>> THEN <<>>
    ELSE IF Len(ss) = 1 THEN Head(ss)
    ELSE Head(ss) \o sep \o Join(sep, Tail(ss))

----------------------------------------------------------------------------
(* PDF files: a page has a text layer (what pdfplumber's extract_text()    *)
(* returns for it: None, "" or text) and the text pytesseract reads off    *)
(* its rendered image.                                                     *)

LayerTexts == {None, <<>>, <<" ">>, <<"a", " ">>, <<" ", "b">>}
OcrTexts   == {<<>>, <<"x">>, <<" ", "y", "\n">>}
Pages      == [layer : LayerTexts, ocr : OcrTexts]

SeqsUpTo(S, n) == UNION {[1..m -> S] : m \in 0..n}
PDFs(n) == SeqsUpTo(Pages, n)

\* the text layers of the first n pages, None counting as no text
LayerOf(p) == IF p.layer = None THEN <<>> ELSE p.layer
Layers(pdf, n) == [j \in 1..n |-> LayerOf(pdf[j])]
OcrOutputs(pdf, n) == [j \in 1..n |-> pdf[j].ocr]

----------------------------------------------------------------------------
(* extract_text_from_pdf(pdf_path)                                         *)

Top == stack[Len(stack)]
InExtract == Top = "extract_text_from_pdf"

\* def extract_text_from_pdf(pdf_path): text = ""
ExtractEnter ==
    /\ InExtract /\ pc = "ex_entry"
    /\ text' = <<>>
    /\ idx' = 0
    /\ pc' = "ex_open"
    /\ UNCHANGED <<selVars, anVars, uiVars>>
    /\ UNCHANGED <<stack, disk, writes, openCalls, renderCalls, ocrLog,
                   directRaised, directRead, ocrRaised, ocrRead, exResult>>

\* DirectExcept going to the return without the OCR stage
DirectExcept_Aborts ==
    /\ directRaised' = TRUE
    /\ idx' = 0
    /\ pc' = "ex_return"

\* except Exception as e: print("Direct text extraction failed") -- falls
\* through to the OCR stage with `text` as accumulated so far
DirectExcept ==
    /\ directRaised' = TRUE
    /\ idx' = 0
    /\ pc' = "ocr_convert"

\* with pdfplumber.open(pdf_path) as pdf: opens the file, or raises
DirectOpen ==
    /\ InExtract /\ pc = "ex_open"
    /\ openCalls' = openCalls + 1
    /\ \/ /\ pc' = "direct_page"
          /\ UNCHANGED <<directRaised, idx>>
       \/ DirectExcept
    /\ UNCHANGED <<selVars, anVars, uiVars>>
    /\ UNCHANGED <<stack, disk, writes, renderCalls, ocrLog, text,
                   directRead, ocrRaised, ocrRead, exResult>>

\* for page in pdf.pages: page_text = page.extract_text();
\*     if page_text: text += page_text
\* where extract_text() may raise
DirectPage ==
    /\ InExtract /\ pc = "direct_page"
    /\ idx < Len(disk)
    /\ \/ /\ LET page_text == disk[idx + 1].layer
             IN  text' = IF Truthy(page_text) THEN text \o page_text ELSE text
          /\ idx' = idx + 1
          /\ directRead' = directRead + 1
          /\ UNCHANGED <<pc, directRaised>>
       \/ /\ DirectExcept
          /\ UNCHANGED <<text, directRead>>
    /\ UNCHANGED <<selVars, anVars, uiVars>>
    /\ UNCHANGED <<stack, disk, writes, openCalls, renderCalls, ocrLog,
                   ocrRaised, ocrRead, exResult>>

\* DirectDone without the early return of the fast path
DirectDone_NoFastPath ==
    /\ InExtract /\ pc = "direct_page"
    /\ idx = Len(disk)
    /\ idx' = 0
    /\ pc' = "ocr_convert"
    /\ UNCHANGED <<selVars, anVars, uiVars>>
    /\ UNCHANGED <<stack, disk, writes, openCalls, renderCalls, ocrLog, text,
                   directRaised, directRead, ocrRaised, ocrRead, exResult>>

\* after the loop: if text.strip(): return text.strip(); else fall through
DirectDone ==
    /\ InExtract /\ pc = "direct_page"
    /\ idx = Len(disk)
    /\ IF Strip(text) # <<>>
       THEN /\ exResult' = Strip(text)
            /\ pc' = "ex_done"
            /\ UNCHANGED idx
       ELSE /\ idx' = 0
            /\ pc' = "ocr_convert"
            /\ UNCHANGED exResult
    /\ UNCHANGED <<selVars, anVars, uiVars>>
    /\ UNCHANGED <<stack, disk, writes, openCalls, renderCalls, ocrLog, text,
                   directRaised, directRead, ocrRaised, ocrRead>>

\* OcrExcept letting the exception leave the function
OcrExcept_Propagates ==
    /\ ocrRaised' = TRUE
    /\ pc' = "ex_raised"

\* except Exception as e: print("OCR failed") -- falls through to the return
OcrExcept ==
    /\ ocrRaised' = TRUE
    /\ pc' = "ex_return"

\* images = convert_from_path(pdf_path): one image per page, or raises
OcrConvert ==
    /\ InExtract /\ pc = "ocr_convert"
    /\ renderCalls' = renderCalls + 1
    /\ \/ /\ pc' = "ocr_page"
          /\ UNCHANGED ocrRaised
       \/ OcrExcept
    /\ UNCHANGED <<selVars, anVars, uiVars>>
    /\ UNCHANGED <<stack, disk, writes, openCalls, ocrLog, text, idx,
                   directRaised, directRead, ocrRead, exResult>>

\* OcrPage appending the page's text without the newline
OcrPage_NoNewline ==
    /\ InExtract /\ pc = "ocr_page"
    /\ idx < Len(disk)
    /\ ocrLog' = Append(ocrLog, idx + 1)
    /\ text' = text \o disk[idx + 1].ocr
    /\ idx' = idx + 1
    /\ ocrRead' = ocrRead + 1
    /\ UNCHANGED <<selVars, anVars, uiVars>>
    /\ UNCHANGED <<pc, ocrRaised, stack, disk, writes, openCalls, renderCalls,
                   directRaised, directRead, exResult>>

\* for image in images: page_text = pytesseract.image_to_string(image);
\*     text += page_text + "\n"
\* where image_to_string may raise
OcrPage ==
    /\ InExtract /\ pc = "ocr_page"
    /\ idx < Len(disk)
    /\ ocrLog' = Append(ocrLog, idx + 1)
    /\ \/ /\ LET page_text == disk[idx + 1].ocr
             IN  text' = text \o page_text \o <<"\n">>
          /\ idx' = idx + 1
          /\ ocrRead' = ocrRead + 1
          /\ UNCHANGED <<pc, ocrRaised>>
       \/ /\ OcrExcept
          /\ UNCHANGED <<text, idx, ocrRead>>
    /\ UNCHANGED <<selVars, anVars, uiVars>>
    /\ UNCHANGED <<stack, disk, writes, openCalls, renderCalls,
                   directRaised, directRead, exResult>>

\* the OCR loop is exhausted
OcrDone ==
    /\ InExtract /\ pc = "ocr_page"
    /\ idx = Len(disk)
    /\ pc' = "ex_return"
    /\ UNCHANGED <<stack, exVars, selVars, anVars, uiVars>>

\* return text.strip()
ExtractReturn ==
    /\ InExtract /\ pc = "ex_return"
    /\ exResult' = Strip(text)
    /\ pc' = "ex_done"
    /\ UNCHANGED <<selVars, anVars, uiVars>>
    /\ UNCHANGED <<stack, disk, writes, openCalls, renderCalls, ocrLog, text,
                   idx, directRaised, directRead, ocrRaised, ocrRead>>

ExtractStep ==
    \/ ExtractEnter
    \/ DirectOpen
    \/ DirectPage
    \/ DirectDone
    \/ OcrConvert
    \/ OcrPage
    \/ OcrDone
    \/ ExtractReturn

----------------------------------------------------------------------------
(* The remote model listing.  An entry is a dict or an object of the SDK;  *)
(* `name` is None, "" or a name; supportedMethods and methods are lists of *)
(* method names, <<>> standing for a missing key or attribute, None and    *)
(* the empty list alike, which the code's `or` chain does not tell apart.  *)

Upper == <<"A", "B", "C", "D", "E", "F", "G", "H", "I", "J", "K", "L", "M",
           "N", "O", "P", "Q", "R", "S", "T", "U", "V", "W", "X", "Y", "Z">>
LowerCase == <<"a", "b", "c", "d", "e", "f", "g", "h", "i", "j", "k", "l", "m",
               "n", "o", "p", "q", "r", "s", "t", "u", "v", "w", "x", "y", "z">>

UpperToLower ==
    [c \in {Upper[n] : n \in 1..Len(Upper)} |->
        LowerCase[CHOOSE n \in 1..Len(Upper) : Upper[n] = c]]

LowerChar(c) == IF c \in DOMAIN UpperToLower THEN UpperToLower[c] ELSE c

\* str.lower()
Lower(s) == [n \in 1..Len(s) |-> LowerChar(s[n])]

generate == <<"g", "e", "n", "e", "r", "a", "t", "e">>
embedContent == <<"e", "m", "b", "e", "d", "C", "o", "n", "t", "e", "n", "t">>
GenerateText == <<"G", "e", "n", "e", "r", "a", "t", "e", "T", "e", "x", "t">>
generateContent == <<"g", "e", "n", "e", "r", "a", "t", "e",
                     "C", "o", "n", "t", "e", "n", "t">>

\* the name of the n-th listed model, when it has one (names are unique)
ListedNames == <<"models/one", "models/two", "models/three", "models/four">>
NameAt(n) == <<ListedNames[n]>>
NameShapes == {"None", "empty", "named"}
\* <<supportedMethods, methods>>
MethodPairs == { <<<<>>, <<>>>>,
                 <<<<embedContent>>, <<generateContent>>>>,
                 <<<<>>, <<embedContent, GenerateText>>>>,
                 <<<<embedContent, generateContent>>, <<>>>> }
EntryShapes == [kind : {"dict", "object"}, name : NameShapes, mp : MethodPairs]
Entry(sh, n) ==
    [kind |-> sh.kind,
     name |-> CASE sh.name = "None" -> None
                [] sh.name = "empty" -> <<>>
                [] OTHER -> NameAt(n),
     supportedMethods |-> sh.mp[1],
     methods |-> sh.mp[2]]
Catalogs(max) ==
    UNION { { [n \in 1..m |-> Entry(f[n], n)] : f \in [1..m -> EntryShapes] } :
            m \in 0..max }

\* PREFERRED_MODELS
PREFERRED_MODELS == << <<"gemini-2.5-pro">>, <<"gemini-pro">>,
                       <<"gemini-2.5-flash">>, <<"gemini-1.5">>,
                       <<"gemini-1.5-flash">> >>

\* the preferred_list argument: not given (None) or a list of names, which
\* the caller may have left empty or may have begun with an empty name
NoList == [given |-> FALSE, items |-> <<>>]
PreferredLists ==
    { NoList,
      [given |-> TRUE, items |-> <<>>],
      [given |-> TRUE, items |-> << <<"custom/a">>, <<"custom/b">> >>],
      [given |-> TRUE, items |-> << <<>>, <<"custom/b">> >>] }

\* a or b, on lists
OrList(a, b) == IF a # <<>> THEN a ELSE b

\* m.get("name") of a dict, getattr(m, "name", None) of an object
EntryName(m) == IF m.kind = "dict" THEN m.name ELSE m.name

\* EntryMethods reading only supportedMethods off an object
EntryMethods_ObjectSupportedOnly(m) ==
    IF m.kind = "dict"
    THEN OrList(OrList(m.supportedMethods, m.methods), <<>>)
    ELSE OrList(m.supportedMethods, <<>>)

\* m.get("supportedMethods") or m.get("methods") or [], and the same with
\* getattr(m, ..., None) for an object
EntryMethods(m) ==
    IF m.kind = "dict"
    THEN OrList(OrList(m.supportedMethods, m.methods), <<>>)
    ELSE OrList(OrList(m.supportedMethods, m.methods), <<>>)

\* any("generate" in str(x).lower() for x in methods)
AnyGenerate(methods) ==
    \E n \in 1..Len(methods) : Contains(Lower(methods[n]), generate)

\* if name and methods: if any(...)
EntryMatches(m) ==
    /\ Truthy(EntryName(m))
    /\ EntryMethods(m) # <<>>
    /\ AnyGenerate(EntryMethods(m))

----------------------------------------------------------------------------
(* select_supported_model(preferred_list=None)                             *)

Running == <<"Running">>
InSelect == Top = "select_supported_model"

\* SelectEnter taking the argument as it is
SelectEnter_NoDefault ==
    /\ InSelect /\ pc = "sel_entry"
    /\ pref' = preferred_list.items
    /\ pc' = "sel_list"
    /\ UNCHANGED <<anVars, uiVars>>
    /\ UNCHANGED <<stack, exVars, catalog, listCalls, preferred_list, models,
                   scan, selRaised, selResult>>

\* pref = preferred_list or PREFERRED_MODELS
SelectEnter ==
    /\ InSelect /\ pc = "sel_entry"
    /\ pref' = IF preferred_list.given /\ preferred_list.items # <<>>
               THEN preferred_list.items
               ELSE PREFERRED_MODELS
    /\ pc' = "sel_list"
    /\ UNCHANGED <<anVars, uiVars>>
    /\ UNCHANGED <<stack, exVars, catalog, listCalls, preferred_list, models,
                   scan, selRaised, selResult>>

\* SelectExcept letting the exception leave the function
SelectExcept_Propagates ==
    /\ selRaised' = TRUE
    /\ pc' = "sel_done"

\* except Exception: pass
SelectExcept ==
    /\ selRaised' = TRUE
    /\ pc' = "sel_fallback"

\* models = genai.list_models(): the listing, or raises
ListModels ==
    /\ InSelect /\ pc = "sel_list"
    /\ listCalls' = listCalls + 1
    /\ \/ /\ models' = catalog
          /\ scan' = 0
          /\ pc' = "sel_scan"
          /\ UNCHANGED selRaised
       \/ /\ SelectExcept
          /\ UNCHANGED <<models, scan>>
    /\ UNCHANGED <<anVars, uiVars>>
    /\ UNCHANGED <<stack, exVars, catalog, preferred_list, pref, selResult>>

\* for m in models: ... if name and methods: if any(...): return name
\* where fetching the next entry of the listing may raise
ScanEntry ==
    /\ InSelect /\ pc = "sel_scan"
    /\ scan < Len(models)
    /\ \/ LET m == models[scan + 1]
          IN  IF EntryMatches(m)
              THEN /\ selResult' = EntryName(m)
                   /\ pc' = "sel_done"
                   /\ UNCHANGED <<scan, selRaised>>
              ELSE /\ scan' = scan + 1
                   /\ UNCHANGED <<pc, selRaised, selResult>>
       \/ /\ SelectExcept
          /\ UNCHANGED <<scan, selResult>>
    /\ UNCHANGED <<anVars, uiVars>>
    /\ UNCHANGED <<stack, exVars, catalog, listCalls, preferred_list, pref,
                   models>>

\* the listing is exhausted without a match
ScanDone ==
    /\ InSelect /\ pc = "sel_scan"
    /\ scan = Len(models)
    /\ pc' = "sel_fallback"
    /\ UNCHANGED <<stack, exVars, selVars, anVars, uiVars>>

\* for name in pref: return name ... return None
Fallback ==
    /\ InSelect /\ pc = "sel_fallback"
    /\ selResult' = IF pref # <<>> THEN pref[1] ELSE None
    /\ pc' = "sel_done"
    /\ UNCHANGED <<anVars, uiVars>>
    /\ UNCHANGED <<stack, exVars, catalog, listCalls, preferred_list, pref,
                   models, scan, selRaised>>

SelectStep ==
    \/ SelectEnter
    \/ ListModels
    \/ ScanEntry
    \/ ScanDone
    \/ Fallback

----------------------------------------------------------------------------
(* Upstream error messages: what str(e) of an exception raised by          *)
(* generate_content may read, made of fragments in the service's spelling. *)

FragKeyNotValid ==
    <<"A", "P", "I", " ", "k", "e", "y", " ", "n", "o", "t", " ", "v", "a",
      "l", "i", "d">>
FragKeyInvalidCode ==
    <<"A", "P", "I", "_", "K", "E", "Y", "_", "I", "N", "V", "A", "L", "I",
      "D">>
FragInvalidKey ==
    <<"I", "n", "v", "a", "l", "i", "d", " ", "A", "P", "I", " ", "k", "e",
      "y">>
FragPermission ==
    <<"P", "e", "r", "m", "i", "s", "s", "i", "o", "n", " ", "D", "e", "n",
      "i", "e", "d">>
Frag403 ==
    <<"4", "0", "3">>
FragQuota ==
    <<"Q", "u", "o", "t", "a">>
Frag429 ==
    <<"4", "2", "9">>
FragRateLimit ==
    <<"R", "a", "t", "e", " ", "L", "i", "m", "i", "t">>
FragExhausted ==
    <<"R", "e", "s", "o", "u", "r", "c", "e", " ", "E", "x", "h", "a", "u",
      "s", "t", "e", "d">>
FragBilling ==
    <<"B", "i", "l", "l", "i", "n", "g">>
FragKeyExpired ==
    <<"A", "P", "I", " ", "k", "e", "y", " ", "e", "x", "p", "i", "r", "e",
      "d">>
FragTooMany ==
    <<"4", "2", "9", " ", "Q", "u", "o", "t", "a", " ", "e", "x", "c", "e",
      "e", "d", "e", "d">>
FragTimeout ==
    <<"t", "i", "m", "e", "o", "u", "t">>

Fragments ==
    { FragKeyNotValid, FragKeyInvalidCode, FragInvalidKey, FragPermission,
      Frag403, FragQuota, Frag429, FragRateLimit, FragExhausted, FragBilling,
      FragKeyExpired, FragTooMany, FragTimeout }
Messages == { Join(<<" ">>, fs) : fs \in SeqsUpTo(Fragments, MaxFrags) }

\* the substrings the except block looks for
PatKeyNotValid ==
    <<"a", "p", "i", " ", "k", "e", "y", " ", "n", "o", "t", " ", "v", "a",
      "l", "i", "d">>
PatKeyInvalidCode ==
    <<"a", "p", "i", "_", "k", "e", "y", "_", "i", "n", "v", "a", "l", "i",
      "d">>
PatInvalidKey ==
    <<"i", "n", "v", "a", "l", "i", "d", " ", "a", "p", "i", " ", "k", "e",
      "y">>
PatPermission ==
    <<"p", "e", "r", "m", "i", "s", "s", "i", "o", "n", " ", "d", "e", "n",
      "i", "e", "d">>
Pat403 ==
    <<"4", "0", "3">>
PatQuota ==
    <<"q", "u", "o", "t", "a">>
Pat429 ==
    <<"4", "2", "9">>
PatRateLimit ==
    <<"r", "a", "t", "e", " ", "l", "i", "m", "i", "t">>
PatExhausted ==
    <<"r", "e", "s", "o", "u", "r", "c", "e", " ", "e", "x", "h", "a", "u",
      "s", "t", "e", "d">>
PatBilling ==
    <<"b", "i", "l", "l", "i", "n", "g">>
PatApiKey ==
    <<"a", "p", "i", " ", "k", "e", "y">>

----------------------------------------------------------------------------
(* The lines of the diagnostic.  The first line of each category is spelt  *)
(* out, because the checklist test reads it; every other line is prose the *)
(* code only appends, one symbol a line.                                   *)

CrossMark == "(cross mark)"
HeadInvalidKey ==
    <<CrossMark>> \o
    <<" ", "A", "P", "I", " ", "k", "e", "y", " ", "i", "s", " ", "i", "n",
      "v", "a", "l", "i", "d", " ", "o", "r", " ", "i", "n", "c", "o", "r",
      "r", "e", "c", "t">>
HeadPermission ==
    <<CrossMark>> \o
    <<" ", "P", "e", "r", "m", "i", "s", "s", "i", "o", "n", " ", "d", "e",
      "n", "i", "e", "d", " ", "-", " ", "A", "P", "I", " ", "k", "e", "y",
      " ", "m", "a", "y", " ", "b", "e", " ", "r", "e", "s", "t", "r", "i",
      "c", "t", "e", "d">>
HeadQuota ==
    <<CrossMark>> \o
    <<" ", "Q", "u", "o", "t", "a", " ", "E", "x", "c", "e", "e", "d", "e",
      "d", " ", "-", " ", "A", "P", "I", " ", "U", "s", "a", "g", "e", " ",
      "L", "i", "m", "i", "t", " ", "R", "e", "a", "c", "h", "e", "d">>
HeadBilling ==
    <<CrossMark>> \o
    <<" ", "B", "i", "l", "l", "i", "n", "g", " ", "n", "o", "t", " ", "e",
      "n", "a", "b", "l", "e", "d">>
HeadError ==
    <<CrossMark>> \o
    <<" ", "E", "r", "r", "o", "r", ":", " ">>

InvalidKeyLines ==
    << HeadInvalidKey,
       <<"-> Check that your .env file contains: GOOGLE_API_KEY=your_key">>,
       <<"-> Verify the key is correct at: makersuite.google.com/app/apikey">> >>
PermissionLines ==
    << HeadPermission,
       <<"-> Remove API key restrictions temporarily">>,
       <<"-> Or add 'Generative Language API' to allowed APIs for this key">> >>
QuotaLines ==
    << HeadQuota,
       <<>>,
       <<"**What this means:**">>,
       <<"You've reached your API usage limit for Google Generative AI.">>,
       <<>>,
       <<"**How to fix:**">>,
       <<>>,
       <<"**Option 1: Wait and Retry (Free Tier)**">>,
       <<"-> Free tier has daily/minute limits that reset over time">>,
       <<"-> Wait a few minutes or hours and try again">>,
       <<"-> Check quota limits: console.cloud.google.com/.../quotas">>,
       <<>>,
       <<"**Option 2: Enable Billing (Recommended)**">>,
       <<"-> Go to: console.cloud.google.com/billing">>,
       <<"-> Link a billing account to your project">>,
       <<"-> This increases your quota limits significantly">>,
       <<>>,
       <<"**Option 3: Request Quota Increase**">>,
       <<"-> Go to: console.cloud.google.com/.../quotas">>,
       <<"-> Select your project and request a quota increase">>,
       <<"-> This may require billing to be enabled">>,
       <<>>,
       <<"**Option 4: Use a Different API Key**">>,
       <<"-> Create a new project with a new API key">>,
       <<"-> Get new key: makersuite.google.com/app/apikey">>,
       <<>>,
       <<"**Tip:** Check your current usage at:">>,
       <<"console.cloud.google.com/.../metrics">> >>
BillingLines ==
    << HeadBilling,
       <<"-> Enable billing in Google Cloud Console for your project">> >>
ChecklistLines ==
    << <<>>,
       <<"Quick Fix Checklist:">>,
       <<"1. Verify .env file exists in project root">>,
       <<"2. Check .env contains: GOOGLE_API_KEY=your_key">>,
       <<"3. Enable 'Generative Language API' in Google Cloud Console">>,
       <<"4. Ensure billing is enabled for your Google Cloud project">>,
       <<"5. Remove API key restrictions temporarily while testing">>,
       <<"6. Restart the application after making changes">> >>

\* Category testing the quota patterns before the credential patterns
Category_QuotaFirst(e) ==
    LET msg == Lower(e)
    IN  IF \/ Contains(msg, PatQuota)
           \/ Contains(msg, Pat429)
           \/ Contains(msg, PatRateLimit)
           \/ Contains(msg, PatExhausted)
        THEN "quota"
        ELSE IF \/ Contains(msg, PatKeyNotValid)
                \/ Contains(msg, PatKeyInvalidCode)
                \/ Contains(msg, PatInvalidKey)
        THEN "invalid_key"
        ELSE IF Contains(msg, PatPermission) \/ Contains(msg, Pat403)
        THEN "permission"
        ELSE IF Contains(msg, PatBilling)
        THEN "billing"
        ELSE "other"

\* msg = str(e).lower(), and the if / elif chain over it
Category(e) ==
    LET msg == Lower(e)
    IN  IF \/ Contains(msg, PatKeyNotValid)
           \/ Contains(msg, PatKeyInvalidCode)
           \/ Contains(msg, PatInvalidKey)
        THEN "invalid_key"
        ELSE IF Contains(msg, PatPermission) \/ Contains(msg, Pat403)
        THEN "permission"
        ELSE IF \/ Contains(msg, PatQuota)
                \/ Contains(msg, Pat429)
                \/ Contains(msg, PatRateLimit)
                \/ Contains(msg, PatExhausted)
        THEN "quota"
        ELSE IF Contains(msg, PatBilling)
        THEN "billing"
        ELSE "other"

\* error_details after the if / elif chain
CategoryLines(e) ==
    LET category == Category(e)
    IN  CASE category = "invalid_key" -> InvalidKeyLines
          [] category = "permission"  -> PermissionLines
          [] category = "quota"       -> QuotaLines
          [] category = "billing"     -> BillingLines
          [] OTHER                    -> << HeadError \o e >>

\* AddsChecklist appending the checklist to every diagnostic
AddsChecklist_Always(error_details) == TRUE

\* if not error_details or ("api key" in error_details[0].lower()
\*                          and "quota" not in error_details[0].lower()):
AddsChecklist(error_details) ==
    \/ error_details = <<>>
    \/ /\ Contains(Lower(error_details[1]), PatApiKey)
       /\ ~Contains(Lower(error_details[1]), PatQuota)

\* error_details when the except block raises
ErrorDetails(e) ==
    LET error_details == CategoryLines(e)
    IN  IF AddsChecklist(error_details)
        THEN error_details \o ChecklistLines
        ELSE error_details

\* "\n".join(error_details)
Diagnostic(e) == Join(<<"\n">>, ErrorDetails(e))

----------------------------------------------------------------------------
(* analyze_resume(resume_text, job_description=None)                       *)

InAnalyze == Top = "analyze_resume"

\* how a call ended: kind is "running", "dict" (the returned error
\* dictionary), "str" (the returned analysis) or "RuntimeError" (raised);
\* text is the dictionary's "error" entry, the analysis, or the message
Ended(kind, txt) == [kind |-> kind, text |-> txt]
StillRunning == Ended("running", <<>>)

RequiredMsg == <<"Resume text is required for analysis.">>
NoModelMsg == <<"No suitable model found. Please check your API key ...">>
InitFailedMsg(name, e) ==
    <<"Failed to initialize model '">> \o name \o <<"': ">> \o e

\* the fixed parts of the prompt
Preamble == <<"You are an experienced HR ... review the provided resume.">>
ResumeLabel == <<"Resume:", "\n">>
CompareIntro ==
    <<"Additionally, compare this resume to the following job description:">>
JobLabel == <<"Job Description:", "\n">>
CompareOutro ==
    <<"Highlight the strengths and weaknesses ... job requirements.">>

\* BasePrompt putting the job-description block before the resume block
BasePrompt_JobFirst(resume, jd) ==
    LET base == ResumeLabel \o resume \o <<"\n">>
    IN  IF Truthy(jd)
        THEN <<"\n">> \o Preamble \o <<"\n", "\n">> \o CompareIntro
                  \o <<"\n", "\n">> \o JobLabel \o jd \o <<"\n", "\n">>
                  \o CompareOutro \o <<"\n">> \o base
        ELSE <<"\n">> \o Preamble \o <<"\n", "\n">> \o base

\* base_prompt = f"""...Resume: {resume_text}"""
\* if job_description: base_prompt += f"""...Job Description: {job_description}..."""
BasePrompt(resume, jd) ==
    LET base == <<"\n">> \o Preamble \o <<"\n", "\n">> \o ResumeLabel
                \o resume \o <<"\n">>
    IN  IF Truthy(jd)
        THEN base \o <<"\n">> \o CompareIntro \o <<"\n", "\n">> \o JobLabel
                  \o jd \o <<"\n", "\n">> \o CompareOutro \o <<"\n">>
        ELSE base

\* what generate_content returns: an object with a text attribute, or one
\* without, of which str(response) is taken
Responses ==
    { [hasText |-> TRUE, text |-> <<" ", "o", "k", " ", "g", "o", "\n">>,
       repr |-> <<"<response>">>],
      [hasText |-> TRUE, text |-> <<>>, repr |-> <<"<response>">>],
      [hasText |-> FALSE, text |-> <<>>, repr |-> <<" ", "<raw>", " ">>] }

\* `response` before generate_content has returned
NoResponse == [hasText |-> FALSE, text |-> <<>>, repr |-> <<>>]

\* Analysis returning the text as received
Analysis_NoStrip(r) ==
    IF r.hasText THEN r.text ELSE r.repr

\* getattr(response, "text", str(response)).strip()
Analysis(r) ==
    Strip(IF r.hasText THEN r.text ELSE r.repr)

\* messages of the exception genai.GenerativeModel may raise
ConstructErrors == { <<"model not found">> }

\* AnalyzeEnter without the test of resume_text
AnalyzeEnter_NoValidation ==
    /\ InAnalyze /\ pc = "an_entry"
    /\ stack' = Append(stack, "select_supported_model")
    /\ preferred_list' = NoList
    /\ pc' = "sel_entry"
    /\ UNCHANGED <<exVars, catalog, listCalls, pref, models, scan, selRaised,
                   selResult, anVars, uiVars>>

\* AnalyzeEnter going on to build the model without calling the selector
AnalyzeEnter_SkipsSelector ==
    /\ InAnalyze /\ pc = "an_entry"
    /\ IF ~Truthy(resume_text)
       THEN /\ anResult' = Ended("dict", RequiredMsg)
            /\ pc' = "an_done"
       ELSE /\ pc' = "an_construct"
            /\ UNCHANGED anResult
    /\ UNCHANGED <<stack, exVars, selVars>>
    /\ UNCHANGED <<resume_text, job_description, selected_model_name,
                   constructCalls, model, prompts, response, upstream, uiVars>>

\* if not resume_text: return {"error": ...}
\* selected_model_name = select_supported_model()   (the call)
AnalyzeEnter ==
    /\ InAnalyze /\ pc = "an_entry"
    /\ IF ~Truthy(resume_text)
       THEN /\ anResult' = Ended("dict", RequiredMsg)
            /\ pc' = "an_done"
            /\ UNCHANGED <<stack, preferred_list>>
       ELSE /\ stack' = Append(stack, "select_supported_model")
            /\ preferred_list' = NoList
            /\ pc' = "sel_entry"
            /\ UNCHANGED anResult
    /\ UNCHANGED <<exVars, catalog, listCalls, pref, models, scan, selRaised,
                   selResult>>
    /\ UNCHANGED <<resume_text, job_description, selected_model_name,
                   constructCalls, model, prompts, response, upstream, uiVars>>

\* selected_model_name = select_supported_model()   (the return)
\* if not selected_model_name: raise RuntimeError("No suitable model found...")
AfterSelect ==
    /\ InSelect /\ pc = "sel_done"
    /\ Len(stack) > 1 /\ stack[Len(stack) - 1] = "analyze_resume"
    /\ stack' = SubSeq(stack, 1, Len(stack) - 1)
    /\ selected_model_name' = selResult
    /\ IF ~Truthy(selResult)
       THEN /\ anResult' = Ended("RuntimeError", NoModelMsg)
            /\ pc' = "an_done"
       ELSE /\ pc' = "an_construct"
            /\ UNCHANGED anResult
    /\ UNCHANGED <<exVars, selVars>>
    /\ UNCHANGED <<resume_text, job_description, constructCalls, model,
                   prompts, response, upstream, uiVars>>

\* try: model = genai.GenerativeModel(selected_model_name)
\* except Exception as e: raise RuntimeError("Failed to initialize model ...")
Construct ==
    /\ InAnalyze /\ pc = "an_construct"
    /\ constructCalls' = constructCalls + 1
    /\ \/ /\ model' = selected_model_name
          /\ pc' = "an_generate"
          /\ UNCHANGED anResult
       \/ \E e \in ConstructErrors :
            /\ anResult' = Ended("RuntimeError",
                                 InitFailedMsg(selected_model_name, e))
            /\ pc' = "an_done"
            /\ UNCHANGED model
    /\ UNCHANGED <<stack, exVars, selVars>>
    /\ UNCHANGED <<resume_text, job_description, selected_model_name, prompts,
                   response, upstream, uiVars>>

\* response = model.generate_content(base_prompt) returns:
\* analysis = getattr(response, "text", str(response)).strip(); return analysis
GenerateReturns ==
    \E r \in Responses :
        /\ response' = r
        /\ anResult' = Ended("str", Analysis(r))
        /\ UNCHANGED upstream

\* response = model.generate_content(base_prompt) raises: the except block
\* builds error_details and raises RuntimeError("\n".join(error_details))
GenerateRaises ==
    \E e \in Messages :
        /\ upstream' = e
        /\ anResult' = Ended("RuntimeError", Diagnostic(e))
        /\ UNCHANGED response

\* Generate calling generate_content again after a failure
Generate_Retry ==
    /\ InAnalyze /\ pc = "an_generate"
    /\ prompts' = Append(prompts, BasePrompt(resume_text, job_description))
    /\ \/ GenerateReturns /\ pc' = "an_done"
       \/ GenerateRaises /\ pc' = IF prompts = <<>> THEN "an_generate"
                                   ELSE "an_done"
    /\ UNCHANGED <<stack, exVars, selVars>>
    /\ UNCHANGED <<resume_text, job_description, selected_model_name,
                   constructCalls, model, uiVars>>

Generate ==
    /\ InAnalyze /\ pc = "an_generate"
    /\ prompts' = Append(prompts, BasePrompt(resume_text, job_description))
    /\ \/ GenerateReturns
       \/ GenerateRaises
    /\ pc' = "an_done"
    /\ UNCHANGED <<stack, exVars, selVars>>
    /\ UNCHANGED <<resume_text, job_description, selected_model_name,
                   constructCalls, model, uiVars>>

AnalyzeStep ==
    \/ AnalyzeEnter
    \/ SelectStep
    \/ AfterSelect
    \/ Construct
    \/ Generate

----------------------------------------------------------------------------
(* The analysis section of the script.  Streamlit runs the script top to   *)
(* bottom on every interaction; the widgets' values are the run's inputs.  *)

InScript == Top = "script"

NoUpload == [present |-> FALSE, pages |-> <<>>]
Upload(pdf) == [present |-> TRUE, pages |-> pdf]

TextPdf == << [layer |-> <<"a", " ">>, ocr |-> <<"x">>] >>
ScannedPdf == << [layer |-> None, ocr |-> <<" ", "y", "\n">>] >>
BlankPdf == << [layer |-> <<>>, ocr |-> <<>>] >>
UploadFiles == {Upload(TextPdf), Upload(ScannedPdf), Upload(BlankPdf)}

\* the text area's content
TypedDescriptions == {<<>>, <<"j", "d">>}

\* ScriptSave opening the file for appending
ScriptSave_Appends ==
    /\ InScript /\ pc = "ui_start"
    /\ IF uploaded_file.present
       THEN /\ disk' = disk \o uploaded_file.pages
            /\ writes' = writes + 1
            /\ stack' = Append(stack, "extract_text_from_pdf")
            /\ pc' = "ex_entry"
            /\ UNCHANGED shown
       ELSE /\ shown' = Append(shown, "info: upload a resume")
            /\ pc' = "ui_end"
            /\ UNCHANGED <<stack, disk, writes>>
    /\ UNCHANGED <<openCalls, renderCalls, ocrLog, text, idx, directRaised,
                   directRead, ocrRaised, ocrRead, exResult>>
    /\ UNCHANGED <<selVars, anVars, uploaded_file, analyze_button>>

\* if uploaded_file: open("uploaded_resume.pdf", "wb").write(...);
\*     resume_text = extract_text_from_pdf("uploaded_resume.pdf")   (the call)
\* else: st.info("Upload a resume ...")
ScriptSave ==
    /\ InScript /\ pc = "ui_start"
    /\ IF uploaded_file.present
       THEN /\ disk' = uploaded_file.pages
            /\ writes' = writes + 1
            /\ stack' = Append(stack, "extract_text_from_pdf")
            /\ pc' = "ex_entry"
            /\ UNCHANGED shown
       ELSE /\ shown' = Append(shown, "info: upload a resume")
            /\ pc' = "ui_end"
            /\ UNCHANGED <<stack, disk, writes>>
    /\ UNCHANGED <<openCalls, renderCalls, ocrLog, text, idx, directRaised,
                   directRead, ocrRaised, ocrRead, exResult>>
    /\ UNCHANGED <<selVars, anVars, uploaded_file, analyze_button>>

\* resume_text = extract_text_from_pdf(...)   (the return)
\* analyze_button = st.button(...)
\* if analyze_button: try: analysis = analyze_resume(resume_text,
\*                                                  job_description)   (the call)
AfterExtract ==
    /\ InExtract /\ pc = "ex_done"
    /\ Len(stack) > 1 /\ stack[Len(stack) - 1] = "script"
    /\ resume_text' = exResult
    /\ IF analyze_button
       THEN /\ stack' = <<"script", "analyze_resume">>
            /\ pc' = "an_entry"
       ELSE /\ stack' = <<"script">>
            /\ pc' = "ui_end"
    /\ UNCHANGED <<exVars, selVars, uiVars>>
    /\ UNCHANGED <<job_description, selected_model_name, constructCalls,
                   model, prompts, response, upstream, anResult>>

\* analysis = analyze_resume(...) returned: st.success("Analysis complete!"),
\*     st.markdown(analysis), st.download_button(...)
\* except Exception as e: st.error(f"Analysis failed: {str(e)}")
AfterAnalyze ==
    /\ InAnalyze /\ pc = "an_done"
    /\ Len(stack) > 1 /\ stack[Len(stack) - 1] = "script"
    /\ stack' = <<"script">>
    /\ shown' = IF anResult.kind = "RuntimeError"
                THEN shown \o <<"error: Analysis failed">>
                ELSE shown \o <<"success: Analysis complete!",
                                "markdown: analysis", "download_button">>
    /\ pc' = "ui_end"
    /\ UNCHANGED <<exVars, selVars, anVars, uploaded_file, analyze_button>>

\* the script has run to its end: nothing of the run is kept but the file
\* on disk
ScriptEnd ==
    /\ InScript /\ pc = "ui_end"
    /\ pc' = "ui_idle"
    /\ uploaded_file' = NoUpload
    /\ analyze_button' = FALSE
    /\ job_description' = <<>>
    /\ shown' = <<>>
    /\ writes' = 0 /\ openCalls' = 0 /\ renderCalls' = 0 /\ ocrLog' = <<>>
    /\ text' = <<>> /\ idx' = 0
    /\ directRaised' = FALSE /\ directRead' = 0
    /\ ocrRaised' = FALSE /\ ocrRead' = 0
    /\ exResult' = Running
    /\ listCalls' = 0 /\ pref' = <<>> /\ models' = <<>> /\ scan' = 0
    /\ selRaised' = FALSE /\ selResult' = Running
    /\ resume_text' = None /\ selected_model_name' = None
    /\ constructCalls' = 0 /\ model' = None
    /\ prompts' = <<>> /\ response' = NoResponse /\ upstream' = None
    /\ anResult' = StillRunning
    /\ UNCHANGED <<stack, disk, catalog, preferred_list>>

\* the next interaction: Streamlit runs the script again, top to bottom,
\* with the widgets' new values
Rerun ==
    /\ InScript /\ pc = "ui_idle"
    /\ pc' = "ui_start"
    /\ uploaded_file' \in UploadFiles \cup {NoUpload}
    /\ analyze_button' \in BOOLEAN
    /\ job_description' \in TypedDescriptions
    /\ UNCHANGED <<stack, exVars, selVars, shown>>
    /\ UNCHANGED <<resume_text, selected_model_name, constructCalls, model,
                   prompts, response, upstream, anResult>>

ScriptStep ==
    \/ ScriptSave
    \/ ExtractStep
    \/ AfterExtract
    \/ AnalyzeStep
    \/ AfterAnalyze
    \/ ScriptEnd
    \/ Rerun

----------------------------------------------------------------------------
(* The state of a component that is not running *)

SelIdle ==
    /\ catalog = <<>>
    /\ listCalls = 0
    /\ preferred_list = NoList
    /\ pref = <<>>
    /\ models = <<>>
    /\ scan = 0
    /\ selRaised = FALSE
    /\ selResult = Running

AnIdle ==
    /\ resume_text = None
    /\ job_description = None
    /\ selected_model_name = None
    /\ constructCalls = 0
    /\ model = None
    /\ prompts = <<>>
    /\ response = NoResponse
    /\ upstream = None
    /\ anResult = StillRunning

UiIdle ==
    /\ uploaded_file = NoUpload
    /\ analyze_button = FALSE
    /\ shown = <<>>

ExIdle ==
    /\ disk = <<>>
    /\ writes = 0
    /\ openCalls = 0
    /\ renderCalls = 0
    /\ ocrLog = <<>>
    /\ text = <<>>
    /\ idx = 0
    /\ directRaised = FALSE
    /\ directRead = 0
    /\ ocrRaised = FALSE
    /\ ocrRead = 0
    /\ exResult = Running

----------------------------------------------------------------------------
(* The extractor called on an arbitrary file *)

InitExtract ==
    /\ pc = "ex_entry"
    /\ stack = <<"extract_text_from_pdf">>
    /\ disk \in PDFs(MaxPages)
    /\ writes = 0
    /\ openCalls = 0
    /\ renderCalls = 0
    /\ ocrLog = <<>>
    /\ text = <<>>
    /\ idx = 0
    /\ directRaised = FALSE
    /\ directRead = 0
    /\ ocrRaised = FALSE
    /\ ocrRead = 0
    /\ exResult = Running
    /\ SelIdle
    /\ AnIdle
    /\ UiIdle

SpecExtract == InitExtract /\ [][ExtractStep]_vars

----------------------------------------------------------------------------
(* The selector called against an arbitrary listing, with any argument *)

InitSelect ==
    /\ pc = "sel_entry"
    /\ stack = <<"select_supported_model">>
    /\ ExIdle
    /\ catalog \in Catalogs(MaxModels)
    /\ listCalls = 0
    /\ preferred_list \in PreferredLists
    /\ pref = <<>>
    /\ models = <<>>
    /\ scan = 0
    /\ selRaised = FALSE
    /\ selResult = Running
    /\ AnIdle
    /\ UiIdle

SpecSelect == InitSelect /\ [][SelectStep]_vars

----------------------------------------------------------------------------
(* The analyzer called with any arguments, against a service whose listing *)
(* is empty or holds a usable model behind an unusable entry               *)

NoMethodsShape == [kind |-> "object", name |-> "named", mp |-> <<<<>>, <<>>>>]
UsableShape ==
    [kind |-> "object", name |-> "named",
     mp |-> <<<<embedContent, generateContent>>, <<>>>>]
ServiceCatalogs ==
    { <<>>, << Entry(NoMethodsShape, 1), Entry(UsableShape, 2) >> }

ResumeTexts == {None, <<>>, <<"c", "v">>}
JobDescriptions == {None, <<>>, <<"j", "d">>}

InitAnalyze ==
    /\ pc = "an_entry"
    /\ stack = <<"analyze_resume">>
    /\ ExIdle
    /\ catalog \in ServiceCatalogs
    /\ listCalls = 0
    /\ preferred_list = NoList
    /\ pref = <<>>
    /\ models = <<>>
    /\ scan = 0
    /\ selRaised = FALSE
    /\ selResult = Running
    /\ resume_text \in ResumeTexts
    /\ job_description \in JobDescriptions
    /\ selected_model_name = None
    /\ constructCalls = 0
    /\ model = None
    /\ prompts = <<>>
    /\ response = NoResponse
    /\ upstream = None
    /\ anResult = StillRunning
    /\ UiIdle

SpecAnalyze == InitAnalyze /\ [][AnalyzeStep]_vars

----------------------------------------------------------------------------
(* The selector called on its own with any argument, or by the analyzer    *)

InitSelectAnalyze == InitSelect \/ InitAnalyze

SpecSelectAnalyze == InitSelectAnalyze /\ [][AnalyzeStep]_vars

----------------------------------------------------------------------------
(* One run of the script, for any inputs of the user *)

Init ==
    /\ pc = "ui_start"
    /\ stack = <<"script">>
    /\ ExIdle
    /\ catalog \in ServiceCatalogs
    /\ listCalls = 0
    /\ preferred_list = NoList
    /\ pref = <<>>
    /\ models = <<>>
    /\ scan = 0
    /\ selRaised = FALSE
    /\ selResult = Running
    /\ resume_text = None
    /\ job_description \in TypedDescriptions
    /\ selected_model_name = None
    /\ constructCalls = 0
    /\ model = None
    /\ prompts = <<>>
    /\ response = NoResponse
    /\ upstream = None
    /\ anResult = StillRunning
    /\ uploaded_file \in UploadFiles \cup {NoUpload}
    /\ analyze_button \in BOOLEAN
    /\ shown = <<>>

Next == ScriptStep

Spec == Init /\ [][Next]_vars

----------------------------------------------------------------------------
(* Properties of analyze_resume on empty input, and of the script          *)

RemoteCalls == listCalls + constructCalls + Len(prompts)

\* C1: a call of analyze_resume with empty resume text (None or ""), with or
\* without a job description, ends in the input-validation outcome (the
\* returned error dictionary) and makes no remote call: no list_models, no
\* GenerativeModel, no generate_content.
C1_EmptyResumeRejectedWithoutRemoteCall ==
    ~Truthy(resume_text) =>
        /\ RemoteCalls = 0
        /\ pc \in {"an_entry", "an_done"}
        /\ pc = "an_done" => anResult = Ended("dict", RequiredMsg)

C1_Witness ==
    /\ pc = "an_done"
    /\ resume_text = <<>>
    /\ Truthy(job_description)
    /\ anResult.kind = "dict"

\* C2: in the script, when extraction ends with no text and the analysis is
\* asked for, the run ends in the error display and never shows "Analysis
\* complete" or the download button.
C2_EmptyTextEndsInErrorDisplay ==
    (pc = "ui_end" /\ analyze_button /\ exResult = <<>>) =>
        shown = <<"error: Analysis failed">>

----------------------------------------------------------------------------
(* Properties of extract_text_from_pdf                                     *)

ExtractEnded ==
    pc \notin {"ex_entry", "ex_open", "direct_page", "ocr_convert",
               "ocr_page", "ex_return"}

HasTextLayer(pdf) ==
    \E j \in 1..Len(pdf) : Strip(LayerOf(pdf[j])) # <<>>

\* C3: for a PDF with a non-whitespace text layer on some page, direct
\* extraction not failing, the result is the trimmed concatenation of the
\* pages' text layers in page order with no separator, and neither the page
\* rendering nor image_to_string is ever called.
C3_TextLayerFastPath ==
    (HasTextLayer(disk) /\ ~directRaised) =>
        /\ renderCalls = 0
        /\ ocrLog = <<>>
        /\ ExtractEnded =>
              exResult = Strip(Concat(Layers(disk, Len(disk))))

C3_Witness ==
    /\ pc = "ex_done"
    /\ ~directRaised
    /\ Len(disk) = MaxPages
    /\ disk[1].layer = <<" ", "b">>
    /\ disk[Len(disk)].layer = <<"a", " ">>
    /\ exResult # Concat(Layers(disk, Len(disk)))

\* C4: for a PDF whose pages all have no text layer (extract_text() gives
\* None, "" or only whitespace on every page), OCR not failing, OCR is run
\* once on every rendered page in page order and the result is the pages'
\* OCR outputs joined by newlines, trimmed.
C4_OcrEveryPageJoinedByNewlines ==
    (ExtractEnded /\ ~ocrRaised /\ ~HasTextLayer(disk)) =>
        /\ renderCalls = 1
        /\ ocrLog = [j \in 1..Len(disk) |-> j]
        /\ exResult = Strip(Join(<<"\n">>, OcrOutputs(disk, Len(disk))))

C4_Witness ==
    /\ pc = "ex_done"
    /\ ~ocrRaised
    /\ Len(disk) = MaxPages
    /\ \A j \in 1..Len(disk) : ~Truthy(disk[j].layer)
    /\ disk[1].ocr = <<"x">>
    /\ disk[Len(disk)].ocr = <<" ", "y", "\n">>

\* a stage has failed or has yielded nothing
DirectFailedOrEmpty ==
    directRaised \/ Strip(Concat(Layers(disk, Len(disk)))) = <<>>
OcrFailedOrEmpty ==
    ocrRaised \/ Strip(Concat(OcrOutputs(disk, Len(disk)))) = <<>>

\* C5 as stated: extract_text_from_pdf always returns a string, and returns
\* the empty string whenever each of the two stages failed or yielded
\* nothing.
C5_EmptyWhenBothStagesFail ==
    ExtractEnded =>
        /\ exResult # Running
        /\ (DirectFailedOrEmpty /\ OcrFailedOrEmpty) => exResult = <<>>

\* the text the two stages have read before they ended
TextRead ==
    Concat(Layers(disk, directRead)) \o Concat(OcrOutputs(disk, ocrRead))

\* C5 as amended: extract_text_from_pdf never raises, whichever stages fail:
\* it returns a string, and it returns the empty string when the pages the
\* two stages read before ending or failing held no non-whitespace text.
C5_NeverRaisesEmptyWhenNothingRead ==
    ExtractEnded =>
        /\ exResult # Running
        /\ Strip(TextRead) = <<>> => exResult = <<>>

C5_Witness ==
    /\ pc = "ex_done"
    /\ directRaised /\ ocrRaised
    /\ Len(disk) = MaxPages
    /\ HasTextLayer(disk)
    /\ Len(ocrLog) = 1
    /\ exResult = <<>>

----------------------------------------------------------------------------
(* Properties of select_supported_model                                    *)

\* the capability list of a listed entry, whatever its kind
Capabilities(m) ==
    IF m.supportedMethods # <<>> THEN m.supportedMethods ELSE m.methods

\* an entry with a non-empty name and a capability that holds "generate",
\* letter case apart
Offers(m) ==
    /\ m.name # None /\ m.name # <<>>
    /\ \E n \in 1..Len(Capabilities(m)) :
          Contains(Lower(Capabilities(m)[n]), generate)

FirstOffer(listing) ==
    CHOOSE n \in 1..Len(listing) :
        Offers(listing[n]) /\ \A k \in 1..(n - 1) : ~Offers(listing[k])

\* C6: when the listing succeeds, the selector returns the name of the first
\* listed entry that has a name and a capability matching "generate" without
\* regard to case; the entries before it are skipped, and a dict and an
\* object with the same name and capabilities are treated alike.
C6_FirstMatchingListedModel ==
    (pc = "sel_done" /\ ~selRaised
        /\ \E n \in 1..Len(catalog) : Offers(catalog[n])) =>
        /\ selResult = catalog[FirstOffer(catalog)].name
        /\ scan = FirstOffer(catalog) - 1
        /\ listCalls = 1

C6_Witness ==
    /\ pc = "sel_done"
    /\ ~selRaised
    /\ Len(catalog) = MaxModels
    /\ catalog[1].kind = "dict"
    /\ catalog[1].supportedMethods = <<embedContent>>
    /\ catalog[1].methods = <<generateContent>>
    /\ catalog[1].name = NameAt(1)
    /\ catalog[Len(catalog)].kind = "object"
    /\ catalog[Len(catalog)].methods = <<embedContent, GenerateText>>
    /\ selResult = NameAt(Len(catalog))

\* C7: when the listing raises, at the call or while its entries are
\* iterated before a match, the selector does not let the exception out: it
\* returns the first entry of the caller's non-empty preferred list, else of
\* PREFERRED_MODELS, and makes no further remote call.
C7_ListingFailureFallsBack ==
    (pc = "sel_done" /\ selRaised) =>
        /\ selResult = IF preferred_list.given /\ preferred_list.items # <<>>
                       THEN preferred_list.items[1]
                       ELSE <<"gemini-2.5-pro">>
        /\ listCalls = 1
        /\ constructCalls = 0 /\ prompts = <<>>

C7_Witness ==
    /\ pc = "sel_done"
    /\ selRaised
    /\ scan = 1
    /\ preferred_list.given /\ Len(preferred_list.items) > 1
    /\ selResult = <<"custom/a">>

----------------------------------------------------------------------------
(* Properties of the diagnostics of analyze_resume                         *)

HasAny(msg, patterns) == \E q \in patterns : Contains(Lower(msg), q)

CredentialPatterns == {PatKeyNotValid, PatKeyInvalidCode, PatInvalidKey}
PermissionPatterns == {PatPermission, Pat403}
QuotaPatterns == {PatQuota, Pat429, PatRateLimit, PatExhausted}
BillingPatterns == {PatBilling}

HasBlock(diagnostic, lines) == Contains(diagnostic, Join(<<"\n">>, lines))

\* the diagnostic carries the quota guidance and nothing of the others
QuotaGuidanceOnly(diagnostic) ==
    /\ HasBlock(diagnostic, QuotaLines)
    /\ ~Contains(diagnostic, HeadInvalidKey)
    /\ ~Contains(diagnostic, HeadPermission)
    /\ ~Contains(diagnostic, HeadBilling)
    /\ ~Contains(diagnostic, HeadError)
    /\ ~HasBlock(diagnostic, ChecklistLines)

QuotaAnd429(msg) ==
    Contains(Lower(msg), PatQuota) /\ Contains(Lower(msg), Pat429)

\* C8 as stated: a remote error whose message holds both "quota" and "429",
\* whatever else it holds, is answered by the quota guidance alone.
C8_QuotaGuidanceWhateverElse ==
    (pc = "an_done" /\ upstream # None /\ QuotaAnd429(upstream)) =>
        /\ anResult.kind = "RuntimeError"
        /\ QuotaGuidanceOnly(anResult.text)

\* C8 as amended: a remote error whose message holds both "quota" and "429"
\* and none of the invalid-credential or permission patterns is answered by
\* the quota guidance alone.
C8_QuotaGuidanceUnlessEarlierCategory ==
    (pc = "an_done" /\ upstream # None /\ QuotaAnd429(upstream)
        /\ ~HasAny(upstream, CredentialPatterns \cup PermissionPatterns)) =>
        /\ anResult.kind = "RuntimeError"
        /\ QuotaGuidanceOnly(anResult.text)

C8_Witness ==
    /\ pc = "an_done"
    /\ upstream = Join(<<" ">>, <<FragBilling, FragTooMany>>)
    /\ anResult.kind = "RuntimeError"
    /\ HasBlock(anResult.text, QuotaLines)

\* C9: a remote error whose message matches none of the credential,
\* permission, quota or billing patterns is answered by a diagnostic that
\* holds the upstream text verbatim and the Quick Fix Checklist.
C9_UnclassifiedGetsChecklist ==
    (pc = "an_done" /\ upstream # None
        /\ ~HasAny(upstream, CredentialPatterns \cup PermissionPatterns
                             \cup QuotaPatterns \cup BillingPatterns)) =>
        /\ anResult.kind = "RuntimeError"
        /\ Contains(anResult.text, upstream)
        /\ HasBlock(anResult.text, ChecklistLines)

\* C10: with non-empty resume text generate_content is called at most once,
\* exactly once when a model was selected and constructed, and after it has
\* failed it is not called again: the failure is raised to the caller.
C10_GenerateCalledOnceNoRetry ==
    /\ Len(prompts) <= 1
    /\ (pc = "an_done" /\ model # None) => Len(prompts) = 1
    /\ model = None => prompts = <<>>
    /\ upstream # None =>
          /\ Len(prompts) = 1
          /\ pc = "an_done"
          /\ anResult.kind = "RuntimeError"

C10_Witness ==
    /\ pc = "an_done"
    /\ Truthy(resume_text)
    /\ model # None
    /\ upstream = FragTimeout
    /\ Len(prompts) = 1
    /\ anResult.kind = "RuntimeError"

----------------------------------------------------------------------------
(* Properties of the prompt and of the returned analysis                   *)

\* the block of characters at position k of p
BlockAt(p, k, block) ==
    /\ k + Len(block) - 1 <= Len(p)
    /\ SubSeq(p, k, k + Len(block) - 1) = block

\* C11: the prompt handed to generate_content holds the resume text; with a
\* non-empty job description it holds the job description too, in a
\* comparison block that comes after the resume block; with the job
\* description absent or empty it is the preamble followed by the resume text
\* and nothing of the comparison block.
C11_PromptHoldsResumeThenJob ==
    \A n \in 1..Len(prompts) :
        LET p == prompts[n]
            resumeBlock == ResumeLabel \o resume_text
            jobBlock == JobLabel \o job_description
        IN  /\ Truthy(resume_text)
            /\ Contains(p, resume_text)
            /\ IF Truthy(job_description)
               THEN /\ Contains(p, job_description)
                    /\ \E i \in 1..Len(p) :
                          /\ BlockAt(p, i, resumeBlock)
                          /\ \E k \in (i + Len(resumeBlock))..Len(p) :
                                /\ BlockAt(p, k, CompareIntro)
                                /\ \E j \in (k + Len(CompareIntro))..Len(p) :
                                      BlockAt(p, j, jobBlock)
               ELSE /\ Strip(p) = Preamble \o <<"\n", "\n">> \o ResumeLabel
                                           \o resume_text
                    /\ ~Contains(p, CompareIntro)
                    /\ ~Contains(p, JobLabel)
                    /\ ~Contains(p, CompareOutro)

C11_Witness ==
    /\ pc = "an_done"
    /\ Len(prompts) = 1
    /\ resume_text = <<"c", "v">>
    /\ job_description = <<"j", "d">>
    /\ Contains(prompts[1], JobLabel \o job_description)

AllWhitespace(s) == \A n \in 1..Len(s) : s[n] \in Whitespace

\* t is raw without its leading and trailing whitespace
IsTrimOf(t, raw) ==
    \E i, j \in 0..Len(raw) :
        /\ i <= j
        /\ t = SubSeq(raw, i + 1, j)
        /\ AllWhitespace(SubSeq(raw, 1, i))
        /\ AllWhitespace(SubSeq(raw, j + 1, Len(raw)))
        /\ t # <<>> => (t[1] \notin Whitespace /\ t[Len(t)] \notin Whitespace)

\* C12: when generate_content returns, analyze_resume returns the response's
\* text without its leading and trailing whitespace and otherwise unchanged;
\* when the response has no text attribute it returns the string conversion
\* of the response, trimmed the same way.
C12_ReturnsTrimmedResponseText ==
    (pc = "an_done" /\ response # NoResponse) =>
        /\ anResult.kind = "str"
        /\ upstream = None
        /\ IsTrimOf(anResult.text,
                    IF response.hasText THEN response.text ELSE response.repr)

C12_Witness ==
    /\ pc = "an_done"
    /\ response.hasText
    /\ response.text = <<" ", "o", "k", " ", "g", "o", "\n">>
    /\ anResult = Ended("str", <<"o", "k", " ", "g", "o">>)

----------------------------------------------------------------------------
(* Properties of the order of the calls inside analyze_resume              *)

SelectorReturned == selResult # Running

\* C13: the selector has returned before the model object is built and
\* before generate_content is called, and the name it returned, which is not
\* empty, is the one the model is built for; when the selector returns None
\* or "" the call ends in the 'No suitable model found' error with no model
\* built and no generate_content call.
C13_SelectorBeforeGenerate ==
    /\ (constructCalls > 0 \/ prompts # <<>>
            \/ pc \in {"an_construct", "an_generate"}) =>
          /\ SelectorReturned
          /\ listCalls = 1
          /\ Truthy(selected_model_name)
          /\ selected_model_name = selResult
    /\ prompts # <<>> => (model = selected_model_name /\ Truthy(model))
    /\ (InAnalyze /\ SelectorReturned /\ ~Truthy(selResult)) =>
          /\ pc = "an_done"
          /\ anResult = Ended("RuntimeError", NoModelMsg)
          /\ constructCalls = 0
          /\ prompts = <<>>

C13_Witness ==
    /\ pc = "an_done"
    /\ Len(prompts) = 1
    /\ listCalls = 1
    /\ ~selRaised
    /\ catalog # <<>>
    /\ selected_model_name = catalog[Len(catalog)].name
    /\ model = selected_model_name

----------------------------------------------------------------------------
(* Properties of the classification of a failed generation call            *)

\* the categories in the order they are to be tested
Precedence ==
    <<CredentialPatterns, PermissionPatterns, QuotaPatterns, BillingPatterns>>
Unclassified == Len(Precedence) + 1

\* the earliest category one of whose patterns the message holds
Rank(msg) ==
    IF \E k \in 1..Len(Precedence) : HasAny(msg, Precedence[k])
    THEN CHOOSE k \in 1..Len(Precedence) :
            /\ HasAny(msg, Precedence[k])
            /\ \A h \in 1..(k - 1) : ~HasAny(msg, Precedence[h])
    ELSE Unclassified

Remediation == <<InvalidKeyLines, PermissionLines, QuotaLines, BillingLines>>
RemediationOf(k, msg) ==
    IF k \in 1..Len(Remediation) THEN Remediation[k] ELSE << HeadError \o msg >>
HeadLines ==
    <<HeadInvalidKey, HeadPermission, HeadQuota, HeadBilling, HeadError>>

\* C14: a failure of generate_content is put in exactly one category, the
\* earliest of credential, permission, quota, billing whose pattern the
\* lower-cased message holds, else unclassified; the diagnostic raised is
\* that category's message, with the Quick Fix Checklist after it or not,
\* and holds the first line of no other category.
C14_EarliestCategoryOnly ==
    (pc = "an_done" /\ upstream # None) =>
        LET k == Rank(upstream)
            message == Join(<<"\n">>, RemediationOf(k, upstream))
        IN  /\ anResult.kind = "RuntimeError"
            /\ BlockAt(anResult.text, 1, message)
            /\ \A h \in 1..Len(HeadLines) :
                  Contains(anResult.text, HeadLines[h]) <=> h = k
            /\ \/ anResult.text = message
               \/ anResult.text =
                     message \o <<"\n">> \o Join(<<"\n">>, ChecklistLines)

C14_Witness ==
    /\ pc = "an_done"
    /\ upstream = Join(<<" ">>, <<FragTooMany, FragKeyNotValid>>)
    /\ HasAny(upstream, QuotaPatterns)
    /\ HasAny(upstream, CredentialPatterns)
    /\ BlockAt(anResult.text, 1, Join(<<"\n">>, InvalidKeyLines))
    /\ ~Contains(anResult.text, HeadQuota)

----------------------------------------------------------------------------
(* Properties of the order of the steps of a run of the script             *)

OnStack(f) == \E n \in 1..Len(stack) : stack[n] = f

ExtractionStarted ==
    OnStack("extract_text_from_pdf") \/ openCalls > 0 \/ exResult # Running
AnalyzerCalled ==
    OnStack("analyze_resume") \/ anResult # StillRunning

\* C15: in a run of the script the uploaded file replaces the content of
\* uploaded_resume.pdf before the extraction starts, the extraction has
\* returned before analyze_resume is called, analyze_resume is called only
\* with a file uploaded and the button clicked, and with the text extracted;
\* without an upload nothing is written, extracted, analyzed or sent, and a
\* run writes, opens and analyzes at most once.
C15_RunStepsInOrder ==
    /\ ExtractionStarted =>
          /\ uploaded_file.present
          /\ writes = 1
          /\ disk = uploaded_file.pages
    /\ AnalyzerCalled =>
          /\ uploaded_file.present /\ analyze_button
          /\ ~OnStack("extract_text_from_pdf")
          /\ exResult # Running
          /\ resume_text = exResult
    /\ ~uploaded_file.present =>
          /\ writes = 0
          /\ ~ExtractionStarted /\ renderCalls = 0 /\ ocrLog = <<>>
          /\ ~AnalyzerCalled
          /\ RemoteCalls = 0
    /\ ~analyze_button => (~AnalyzerCalled /\ RemoteCalls = 0)
    /\ writes <= 1 /\ openCalls <= 1 /\ renderCalls <= 1
    /\ listCalls <= 1 /\ constructCalls <= 1 /\ Len(prompts) <= 1

C15_Witness ==
    /\ pc = "ui_end"
    /\ uploaded_file = Upload(ScannedPdf)
    /\ analyze_button
    /\ writes = 1 /\ openCalls = 1 /\ renderCalls = 1
    /\ disk = ScannedPdf
    /\ Len(prompts) = 1
    /\ shown = <<"success: Analysis complete!", "markdown: analysis",
                 "download_button">>

----------------------------------------------------------------------------
(* Properties of extract_text_from_pdf when a stage fails part-way         *)

\* the text layers the direct stage read, then the OCR output of each page
\* the OCR stage read, followed by a newline
PartialThenOcr ==
    Concat(Layers(disk, directRead))
        \o Concat([j \in 1..ocrRead |-> disk[j].ocr \o <<"\n">>])

\* C16: when the direct stage raises, also after pages have yielded text,
\* the OCR stage is run and the result is the trimmed text the direct stage
\* had read followed by each OCR output and a newline; when the OCR stage
\* raises, the result is the trimmed text accumulated until then.
C16_PartialTextKeptAcrossFailures ==
    /\ (ExtractEnded /\ directRaised) =>
          /\ renderCalls = 1
          /\ exResult = Strip(PartialThenOcr)
    /\ (ExtractEnded /\ ocrRaised) =>
          /\ exResult = Strip(PartialThenOcr)
          /\ Len(ocrLog) \in {ocrRead, ocrRead + 1}

C16_Witness ==
    /\ pc = "ex_done"
    /\ Len(disk) = MaxPages
    /\ directRaised /\ directRead = 1
    /\ disk[1].layer = <<" ", "b">>
    /\ ocrRaised /\ ocrRead = 1
    /\ disk[1].ocr = <<" ", "y", "\n">>
    /\ exResult = <<"b", " ", "y">>

----------------------------------------------------------------------------
(* Properties of what select_supported_model returns                       *)

\* the name of a listed entry that offers generation
MatchingListedName(name) ==
    \E n \in 1..Len(catalog) : Offers(catalog[n]) /\ catalog[n].name = name

NoModelError == Ended("RuntimeError", NoModelMsg)

\* C17 as stated: for every listing outcome and every preferred_list the
\* selector returns a non-empty name, a matching listed name or the first
\* entry of the preference list (PREFERRED_MODELS for None and []), and
\* analyze_resume never ends in the 'No suitable model found' error.
C17_SelectorNeverReturnsEmpty ==
    /\ SelectorReturned =>
          /\ Truthy(selResult)
          /\ MatchingListedName(selResult)
                \/ (pref # <<>> /\ selResult = pref[1])
    /\ anResult # NoModelError

\* C17 as amended: the selector returns a matching listed name or the first
\* entry of the preference list (PREFERRED_MODELS for None and []); what it
\* returns is not None and not empty when preferred_list is None, is empty
\* or begins with a non-empty name; analyze_resume, which passes no
\* preferred_list, never ends in the 'No suitable model found' error.
C17_NonEmptyUnlessFirstPreferredEmpty ==
    /\ SelectorReturned =>
          /\ pref = IF preferred_list.given /\ preferred_list.items # <<>>
                    THEN preferred_list.items
                    ELSE PREFERRED_MODELS
          /\ MatchingListedName(selResult)
                \/ (pref # <<>> /\ selResult = pref[1])
          /\ (~preferred_list.given \/ preferred_list.items = <<>>
                \/ Truthy(preferred_list.items[1])) => Truthy(selResult)
    /\ anResult # NoModelError

C17_Witness ==
    /\ pc = "sel_done"
    /\ preferred_list.given /\ preferred_list.items = <<>>
    /\ ~selRaised
    /\ Len(catalog) = MaxModels
    /\ scan = Len(catalog)
    /\ selResult = PREFERRED_MODELS[1]

====
